---- MODULE Spec2Model ----
(***************************************************************************)
(* Host-side serial command client for an Arduino (Arduino/arduino.py).    *)
(* Strings are sequences of one-character strings, so that framing,        *)
(* str(), replace() and int() are computed character by character.         *)
(* Python values are tagged records [t, v]: t is the Python type.          *)
(***************************************************************************)
EXTENDS Integers, Sequences, FiniteSets, TLC

VARIABLES
    phase,      \* "new" | "probing" | "opened" | "bound" | "failed"
    mode,       \* how __init__ was called: "none" | "scan" | "port" | "sr"
    nports,     \* number of candidates the enumeration produced
    i,          \* find_port: index of the candidate p of the for loop
    fp,         \* find_port / get_version position inside one iteration
    version,    \* find_port's local variable `version`
    sr,         \* the connection find_port / __init__ / the session holds
    err,        \* the exception __init__ ended with ("" when none)
    conn,       \* per port: [st, inbuf, written, closes]
    cur,        \* the session operation in progress / last run
    plan,       \* transport calls the operation still has to make
    trace,      \* transport calls the operation made, each with the port state
    wire,       \* the frame the operation wrote
    rd,         \* lines the operation read, decoded
    result,     \* what the operation returned or raised
    enc,        \* framer harness: [cmd, args, frame] of the last encoding
    stale       \* [pending, read]: how many of the oldest lines of sr's input
                \* buffer were there when the operation began, and whether
                \* the operation has read one of them

vars == <<phase, mode, nports, i, fp, version, sr, err, conn, cur, plan,
          trace, wire, rd, result, enc, stale>>

\* ------------------------------------------------------------------ bounds
MaxPorts == 3
MaxBuf == 1
MaxPin == 1
MaxScan == 2
MaxArgs == 2

\* ----------------------------------------------------------- Python values
PyNone == [t |-> "none", v |-> <<>>]
PyInt(n) == [t |-> "int", v |-> n]
PyStr(s) == [t |-> "str", v |-> s]
PyTuple(xs) == [t |-> "tuple", v |-> xs]
PyList(xs) == [t |-> "list", v |-> xs]
PyRaise(e) == [t |-> "raise", v |-> e]
Pending == [t |-> "pending", v |-> <<>>]

DigitChar(d) == <<"0", "1", "2", "3", "4", "5", "6", "7", "8", "9">>[d + 1]

RECURSIVE Digits(_)
Digits(n) ==
    IF n < 10 THEN <<DigitChar(n)>>
    ELSE Digits(n \div 10) \o <<DigitChar(n % 10)>>

\* str(x) of an argument: decimal form of an int, a string unchanged
str(x) ==
    IF x.t = "int"
    THEN (IF x.v < 0 THEN <<"-">> \o Digits(0 - x.v) ELSE Digits(x.v))
    ELSE x.v

\* truth value of `args` in `if args:`
Truthy(a) ==
    /\ a.t # "none"
    /\ Len(a.v) > 0

\* the items map(str, args) iterates over: a tuple's elements, a string's characters
Items(a) ==
    IF a.t = "str" THEN [k \in 1..Len(a.v) |-> PyStr(<<a.v[k]>>)] ELSE a.v

RECURSIVE join(_, _)
join(sep, xs) ==
    IF xs = <<>> THEN <<>>
    ELSE IF Len(xs) = 1 THEN str(xs[1])
    ELSE str(xs[1]) \o sep \o join(sep, Tail(xs))

build_cmd_str_noSep(cmd, args) ==
    LET a == IF Truthy(args) THEN join(<<"%">>, Items(args)) ELSE <<>>
    IN  IF Truthy(args) THEN <<"@">> \o cmd \o <<"%">> \o a \o <<"$", "!">>
        ELSE <<"@">> \o cmd \o <<"$", "!">>

build_cmd_str_unsigned(cmd, args) ==
    LET abs(x) == IF x.t = "int" /\ x.v < 0 THEN PyInt(0 - x.v) ELSE x
        its == Items(args)
        a == IF Truthy(args)
             THEN join(<<"%">>, [k \in 1..Len(its) |-> abs(its[k])])
             ELSE <<>>
    IN  <<"@">> \o cmd \o <<"%">> \o a \o <<"$", "!">>

build_cmd_str(cmd, args) ==
    LET a == IF Truthy(args) THEN join(<<"%">>, Items(args)) ELSE <<>>
    IN  <<"@">> \o cmd \o <<"%">> \o a \o <<"$", "!">>

\* s.replace(old, "")
RECURSIVE replace(_, _)
replace(s, old) ==
    IF Len(s) < Len(old) THEN s
    ELSE IF SubSeq(s, 1, Len(old)) = old
         THEN replace(SubSeq(s, Len(old) + 1, Len(s)), old)
         ELSE <<Head(s)>> \o replace(Tail(s), old)

CRLF == <<"\r", "\n">>

\* -------------------------------------------------------------- literals
S_version == <<"v", "e", "r", "s", "i", "o", "n">>
S_done == <<"d", "o", "n", "e">>
S_LOW == <<"L", "O", "W">>
S_HIGH == <<"H", "I", "G", "H">>
S_INPUT == <<"I", "N", "P", "U", "T">>
S_OUTPUT == <<"O", "U", "T", "P", "U", "T">>

\* int(s) accepts an optional sign followed by at least one decimal digit
IsDigit(c) == c \in {"0", "1", "2", "3", "4", "5", "6", "7", "8", "9"}

DigitVal(c) == CHOOSE d \in 0..9 : DigitChar(d) = c

RECURSIVE NatOf(_)
NatOf(s) ==
    IF Len(s) = 1 THEN DigitVal(s[1])
    ELSE 10 * NatOf(SubSeq(s, 1, Len(s) - 1)) + DigitVal(s[Len(s)])

IsSpace(c) == c \in {" ", "\t", "\n", "\r", "\f"}

RECURSIVE strip(_)
strip(s) ==
    IF s = <<>> THEN s
    ELSE IF IsSpace(Head(s)) THEN strip(Tail(s))
    ELSE IF IsSpace(s[Len(s)]) THEN strip(SubSeq(s, 1, Len(s) - 1))
    ELSE s

\* int(s): surrounding whitespace is ignored
int(s) ==
    LET t == strip(s)
        body == IF t # <<>> /\ Head(t) \in {"-", "+"} THEN Tail(t) ELSE t
    IN  IF body # <<>> /\ \A k \in 1..Len(body) : IsDigit(body[k])
        THEN PyInt(IF Head(t) = "-" THEN 0 - NatOf(body) ELSE NatOf(body))
        ELSE PyRaise("ValueError")

\* ---------------------------------------------------------------- transport
NoConn == 0 - 1
PortIds == 0..MaxPorts          \* 0 is a connection the caller opened itself
Unopened == [st |-> "unopened", inbuf |-> <<>>, written |-> FALSE, closes |-> 0]

\* reply lines the device may put on the link
Lines == { S_version \o CRLF, <<"5", "1", "2">> \o CRLF, S_done \o CRLF }

IsOpen(p) == p \in PortIds /\ conn[p].st = "open"

Call(name) == [call |-> name, open |-> IsOpen(sr)]

\* serial.Serial(p, baud, timeout=timeout)
SerialOpen(p, ok) ==
    conn' = [conn EXCEPT ![p].st = IF ok THEN "open" ELSE "failed"]

\* sr.close()
SerialClose(p) ==
    conn' = [conn EXCEPT ![p] = [st |-> "closed", inbuf |-> <<>>,
                                  written |-> @.written, closes |-> @.closes + 1]]

\* the device sends a reply line at a time of its choosing
DeviceSend ==
    /\ phase \in {"probing", "opened", "bound"}
    /\ \E p \in PortIds, line \in Lines :
        /\ conn[p].st = "open"
        /\ Len(conn[p].inbuf) < MaxBuf
        /\ conn' = [conn EXCEPT ![p].inbuf = Append(@, line)]
    /\ UNCHANGED <<phase, mode, nports, i, fp, version, sr, err, cur, plan,
                   trace, wire, rd, result, enc, stale>>

\* --------------------------------------------------------------- operations
Op(name, args, cmd_str) == [name |-> name, args |-> args, cmd_str |-> cmd_str]
NoOp == Op("", <<>>, <<>>)

\* get_version(sr): the frame, then write, flush, readline
get_version_plan == <<"write", "flush", "readline">>

get_version_op == Op("version", <<>>, build_cmd_str(S_version, PyNone))

Begin(op, steps) ==
    /\ cur' = op
    /\ plan' = steps
    /\ trace' = <<>>
    /\ wire' = <<>>
    /\ rd' = <<>>
    /\ result' = IF steps = <<>> THEN PyNone ELSE Pending
    /\ stale' = [pending |-> IF IsOpen(sr) THEN Len(conn[sr].inbuf) ELSE 0,
                 read |-> FALSE]

ctorVars == <<phase, mode, nports, i, fp, version, sr, err>>
opVars == <<cur, plan, trace, wire, rd, result, stale>>

\* ------------------------------------------------- Arduino.__init__, find_port
\* Arduino(sr=<an open connection>): lines 102 and 109 only
InitWithSr ==
    /\ phase = "new"
    /\ mode' = "sr"
    /\ sr' = 0
    /\ conn' = [conn EXCEPT ![0].st = "open"]
    /\ phase' = "opened"
    /\ UNCHANGED <<nports, i, fp, version, err, enc>>
    /\ UNCHANGED opVars

InitWithPort_skip(p, ok) ==
    /\ phase = "new"
    /\ mode' = "port"
    /\ SerialOpen(p, ok)
    /\ sr' = IF ok THEN p ELSE NoConn
    /\ phase' = IF ok THEN "opened" ELSE "probing"
    /\ nports' = IF ok THEN nports ELSE 1
    /\ i' = IF ok THEN i ELSE 1
    /\ fp' = IF ok THEN fp ELSE "open"
    /\ UNCHANGED <<version, err, enc>>
    /\ UNCHANGED opVars

\* Arduino(port=p): serial.Serial(port, baud, timeout=timeout), not guarded
InitWithPort(p, ok) ==
    /\ phase = "new"
    /\ mode' = "port"
    /\ SerialOpen(p, ok)
    /\ sr' = IF ok THEN p ELSE NoConn
    /\ phase' = IF ok THEN "opened" ELSE "failed"
    /\ err' = IF ok THEN "" ELSE "SerialException"
    /\ UNCHANGED <<nports, i, fp, version, enc>>
    /\ UNCHANGED opVars

\* Arduino(): find_port(baud, timeout) enumerates n candidates and starts the loop
InitScan(n) ==
    /\ phase = "new"
    /\ mode' = "scan"
    /\ nports' = n
    /\ i' = 1
    /\ fp' = "open"
    /\ phase' = "probing"
    /\ UNCHANGED <<version, sr, err, conn, enc>>
    /\ UNCHANGED opVars

\* on Windows the enumeration raises Exception when the registry key is absent
EnumFail ==
    /\ phase = "new"
    /\ mode' = "scan"
    /\ phase' = "failed"
    /\ err' = "Exception"
    /\ UNCHANGED <<nports, i, fp, version, sr, conn, enc>>
    /\ UNCHANGED opVars

\* for p in ports: try serial.Serial(p, ...) except: continue; then get_version(sr)
FpOpen(ok) ==
    /\ phase = "probing"
    /\ fp = "open"
    /\ i <= nports
    /\ SerialOpen(i, ok)
    /\ IF ok
       THEN /\ sr' = i
            /\ fp' = "gv"
            /\ Begin(get_version_op, get_version_plan)
            /\ UNCHANGED i
       ELSE /\ i' = i + 1
            /\ UNCHANGED <<sr, fp>>
            /\ UNCHANGED opVars
    /\ UNCHANGED <<phase, mode, nports, version, err, enc>>

FpCheck_keepOpen ==
    /\ phase = "probing"
    /\ fp = "gv"
    /\ plan = <<>>
    /\ IF result.t = "raise"
       THEN /\ phase' = "failed"
            /\ err' = result.v
            /\ UNCHANGED <<version, i, fp, conn>>
       ELSE /\ version' = result
            /\ IF result # PyStr(S_version)
               THEN /\ i' = i + 1
                    /\ fp' = "open"
                    /\ UNCHANGED <<phase, conn>>
               ELSE /\ phase' = "opened"
                    /\ UNCHANGED <<i, fp, conn>>
            /\ UNCHANGED err
    /\ UNCHANGED <<mode, nports, sr, enc>>
    /\ UNCHANGED opVars

FpCheck_acceptAny ==
    /\ phase = "probing"
    /\ fp = "gv"
    /\ plan = <<>>
    /\ IF result.t = "raise"
       THEN /\ phase' = "failed"
            /\ err' = result.v
            /\ UNCHANGED <<version, i, fp, conn>>
       ELSE /\ version' = result
            /\ IF result.t = "none"
               THEN /\ SerialClose(sr)
                    /\ i' = i + 1
                    /\ fp' = "open"
                    /\ UNCHANGED phase
               ELSE /\ phase' = "opened"
                    /\ UNCHANGED <<i, fp, conn>>
            /\ UNCHANGED err
    /\ UNCHANGED <<mode, nports, sr, enc>>
    /\ UNCHANGED opVars

\* version = get_version(sr); if version != 'version': sr.close(); continue
\* else return sr.  An exception of get_version leaves find_port and __init__.
FpCheck ==
    /\ phase = "probing"
    /\ fp = "gv"
    /\ plan = <<>>
    /\ IF result.t = "raise"
       THEN /\ phase' = "failed"
            /\ err' = result.v
            /\ UNCHANGED <<version, i, fp, conn>>
       ELSE /\ version' = result
            /\ IF result # PyStr(S_version)
               THEN /\ SerialClose(sr)
                    /\ i' = i + 1
                    /\ fp' = "open"
                    /\ UNCHANGED phase
               ELSE /\ phase' = "opened"
                    /\ UNCHANGED <<i, fp, conn>>
            /\ UNCHANGED err
    /\ UNCHANGED <<mode, nports, sr, enc>>
    /\ UNCHANGED opVars

FpExhausted_silent ==
    /\ phase = "probing"
    /\ fp = "open"
    /\ i > nports
    /\ sr' = NoConn
    /\ phase' = "bound"
    /\ UNCHANGED <<mode, nports, i, fp, version, err, conn, enc>>
    /\ UNCHANGED opVars

\* the loop ends: return None; __init__ raises ValueError("Could not find port.")
FpExhausted ==
    /\ phase = "probing"
    /\ fp = "open"
    /\ i > nports
    /\ sr' = NoConn
    /\ phase' = "failed"
    /\ err' = "ValueError"
    /\ UNCHANGED <<mode, nports, i, fp, version, conn, enc>>
    /\ UNCHANGED opVars

\* sr.flush(); self.sr = sr
CtorFlush(ok) ==
    /\ phase = "opened"
    /\ phase' = IF ok THEN "bound" ELSE "failed"
    /\ err' = IF ok THEN "" ELSE "SerialException"
    /\ UNCHANGED <<mode, nports, i, fp, version, sr, conn, enc>>
    /\ UNCHANGED opVars

\* ------------------------------------------- transport calls of an operation
Running == phase \in {"probing", "bound"} /\ plan # <<>>

Failed_propagate(call) ==
    /\ plan' = <<>>
    /\ result' = PyRaise("SerialException")

\* an exception of a transport call: get_version catches those of write and
\* flush and returns None; everywhere else the exception leaves the operation
Failed(call) ==
    /\ plan' = <<>>
    /\ result' = IF cur.name = "version" /\ call \in {"write", "flush"}
                 THEN PyNone
                 ELSE PyRaise("SerialException")

\* self.sr.flushInput()
StepFlushInput(ok) ==
    /\ Running
    /\ Head(plan) = "flushInput"
    /\ trace' = Append(trace, Call("flushInput"))
    /\ IF IsOpen(sr) /\ ok
       THEN /\ conn' = [conn EXCEPT ![sr].inbuf = <<>>]
            /\ stale' = [stale EXCEPT !.pending = 0]
            /\ plan' = Tail(plan)
            /\ UNCHANGED result
       ELSE /\ Failed("flushInput")
            /\ UNCHANGED <<conn, stale>>
    /\ UNCHANGED <<cur, wire, rd, enc>>
    /\ UNCHANGED ctorVars

\* sr.write(cmd_str)
StepWrite(ok) ==
    /\ Running
    /\ Head(plan) = "write"
    /\ trace' = Append(trace, Call("write"))
    /\ IF IsOpen(sr)
       THEN conn' = [conn EXCEPT ![sr].written = TRUE]
       ELSE UNCHANGED conn
    /\ IF IsOpen(sr) /\ ok
       THEN /\ wire' = cur.cmd_str
            /\ plan' = Tail(plan)
            /\ UNCHANGED result
       ELSE /\ Failed("write")
            /\ UNCHANGED wire
    /\ UNCHANGED <<cur, rd, enc, stale>>
    /\ UNCHANGED ctorVars

\* sr.flush(); an operation that reads nothing returns None after it
StepFlush(ok) ==
    /\ Running
    /\ Head(plan) = "flush"
    /\ trace' = Append(trace, Call("flush"))
    /\ IF IsOpen(sr) /\ ok
       THEN /\ plan' = Tail(plan)
            /\ result' = IF Tail(plan) = <<>> THEN PyNone ELSE result
       ELSE Failed("flush")
    /\ UNCHANGED <<cur, wire, rd, conn, enc, stale>>
    /\ UNCHANGED ctorVars

Decode_default(x) ==
    IF cur.name = "analogRead"
    THEN (IF int(x).t = "raise" THEN PyInt(0) ELSE int(x))
    ELSE PyStr(x)

\* what the operation makes of the decoded line x
Decode(x) ==
    IF cur.name = "analogRead" THEN int(x) ELSE PyStr(x)

StepReadline_keepDone(ok) ==
    /\ Running
    /\ Head(plan) = "readline"
    /\ trace' = Append(trace, Call("readline"))
    /\ IF IsOpen(sr) /\ ok
       THEN LET line == IF conn[sr].inbuf = <<>> THEN <<>> ELSE Head(conn[sr].inbuf)
                x == replace(line, CRLF)
            IN  /\ conn' = [conn EXCEPT ![sr].inbuf =
                                IF @ = <<>> THEN <<>> ELSE Tail(@)]
                /\ stale' = IF conn[sr].inbuf # <<>> /\ stale.pending > 0
                            THEN [pending |-> stale.pending - 1, read |-> TRUE]
                            ELSE stale
                /\ IF cur.name = "I2CScan"
                   THEN IF x # S_done
                        THEN /\ Len(rd) < MaxScan
                             /\ rd' = Append(rd, x)
                             /\ UNCHANGED <<plan, result>>
                        ELSE /\ plan' = Tail(plan)
                             /\ result' = PyList(Append(rd, x))
                             /\ UNCHANGED rd
                   ELSE /\ rd' = Append(rd, x)
                        /\ plan' = Tail(plan)
                        /\ result' = Decode(x)
       ELSE /\ Failed("readline")
            /\ UNCHANGED <<conn, rd, stale>>
    /\ UNCHANGED <<cur, wire, enc>>
    /\ UNCHANGED ctorVars

StepReadline_stopOnTimeout(ok) ==
    /\ Running
    /\ Head(plan) = "readline"
    /\ trace' = Append(trace, Call("readline"))
    /\ IF IsOpen(sr) /\ ok
       THEN LET line == IF conn[sr].inbuf = <<>> THEN <<>> ELSE Head(conn[sr].inbuf)
                x == replace(line, CRLF)
            IN  /\ conn' = [conn EXCEPT ![sr].inbuf =
                                IF @ = <<>> THEN <<>> ELSE Tail(@)]
                /\ stale' = IF conn[sr].inbuf # <<>> /\ stale.pending > 0
                            THEN [pending |-> stale.pending - 1, read |-> TRUE]
                            ELSE stale
                /\ IF cur.name = "I2CScan"
                   THEN IF x # S_done /\ x # <<>>
                        THEN /\ Len(rd) < MaxScan
                             /\ rd' = Append(rd, x)
                             /\ UNCHANGED <<plan, result>>
                        ELSE /\ plan' = Tail(plan)
                             /\ result' = PyList(rd)
                             /\ UNCHANGED rd
                   ELSE /\ rd' = Append(rd, x)
                        /\ plan' = Tail(plan)
                        /\ result' = Decode(x)
       ELSE /\ Failed("readline")
            /\ UNCHANGED <<conn, rd, stale>>
    /\ UNCHANGED <<cur, wire, enc>>
    /\ UNCHANGED ctorVars

\* sr.readline().replace("\r\n", ""): the oldest pending line, or the empty
\* string when the timeout passes with nothing pending
StepReadline(ok) ==
    /\ Running
    /\ Head(plan) = "readline"
    /\ trace' = Append(trace, Call("readline"))
    /\ IF IsOpen(sr) /\ ok
       THEN LET line == IF conn[sr].inbuf = <<>> THEN <<>> ELSE Head(conn[sr].inbuf)
                x == replace(line, CRLF)
            IN  /\ conn' = [conn EXCEPT ![sr].inbuf =
                                IF @ = <<>> THEN <<>> ELSE Tail(@)]
                /\ stale' = IF conn[sr].inbuf # <<>> /\ stale.pending > 0
                            THEN [pending |-> stale.pending - 1, read |-> TRUE]
                            ELSE stale
                /\ IF cur.name = "I2CScan"
                   THEN IF x # S_done
                        THEN /\ Len(rd) < MaxScan
                             /\ rd' = Append(rd, x)
                             /\ UNCHANGED <<plan, result>>
                        ELSE /\ plan' = Tail(plan)
                             /\ result' = PyList(rd)
                             /\ UNCHANGED rd
                   ELSE /\ rd' = Append(rd, x)
                        /\ plan' = Tail(plan)
                        /\ result' = Decode(x)
       ELSE /\ Failed("readline")
            /\ UNCHANGED <<conn, rd, stale>>
    /\ UNCHANGED <<cur, wire, enc>>
    /\ UNCHANGED ctorVars

\* self.sr.close()
StepClose ==
    /\ Running
    /\ Head(plan) = "close"
    /\ trace' = Append(trace, Call("close"))
    /\ SerialClose(sr)
    /\ stale' = [stale EXCEPT !.pending = 0]
    /\ plan' = Tail(plan)
    /\ result' = PyNone
    /\ UNCHANGED <<cur, wire, rd, enc>>
    /\ UNCHANGED ctorVars

\* --------------------------------------------------- the session's operations
Pins == 0..MaxPin
Levels == {S_LOW, S_HIGH}
Modes == {S_INPUT, S_OUTPUT, S_INPUT \o <<"_">> \o <<"P", "U", "L", "L", "U", "P">>}
Duties == {0 - 5, 0, 128, 255, 300}
Addrs == {8, 72}
Regs == {1}

\* a method of a constructed session is called while no other one runs
Idle == phase = "bound" /\ plan = <<>>

Start_reopen(op, steps) ==
    /\ Begin(op, steps)
    /\ conn' = [conn EXCEPT ![sr].st = "open"]
    /\ UNCHANGED enc
    /\ UNCHANGED ctorVars

\* the method computes cmd_str and is about to make its transport calls
Start(op, steps) ==
    /\ Begin(op, steps)
    /\ UNCHANGED <<conn, enc>>
    /\ UNCHANGED ctorVars

Arduino_version ==
    /\ Idle
    /\ Start(get_version_op, get_version_plan)

digitalWrite_sameSign(pin, val) ==
    /\ Idle
    /\ Start(Op("digitalWrite", <<PyInt(pin), PyStr(val)>>,
             build_cmd_str(<<"d", "w">>, PyTuple(<<PyInt(pin)>>))),
          <<"write", "flush">>)

digitalWrite_strNeg(pin, val) ==
    LET pin_ == IF val = S_LOW THEN <<"-">> \o Digits(pin) ELSE Digits(pin)
    IN  /\ Idle
        /\ Start(Op("digitalWrite", <<PyInt(pin), PyStr(val)>>,
                 build_cmd_str(<<"d", "w">>, PyTuple(<<PyStr(pin_)>>))),
              <<"write", "flush">>)

digitalWrite(pin, val) ==
    LET pin_ == IF val = S_LOW THEN 0 - pin ELSE pin
    IN  /\ Idle
        /\ Start(Op("digitalWrite", <<PyInt(pin), PyStr(val)>>,
                 build_cmd_str(<<"d", "w">>, PyTuple(<<PyInt(pin_)>>))),
              <<"write", "flush">>)

analogWrite_noUpper(pin, val) ==
    LET v == IF val < 0 THEN 0 ELSE val
    IN  /\ Idle
        /\ Start(Op("analogWrite", <<PyInt(pin), PyInt(val)>>,
                 build_cmd_str(<<"a", "w">>, PyTuple(<<PyInt(pin), PyInt(v)>>))),
              <<"write", "flush">>)

analogWrite(pin, val) ==
    LET v == IF val > 255 THEN 255 ELSE IF val < 0 THEN 0 ELSE val
    IN  /\ Idle
        /\ Start(Op("analogWrite", <<PyInt(pin), PyInt(val)>>,
                 build_cmd_str(<<"a", "w">>, PyTuple(<<PyInt(pin), PyInt(v)>>))),
              <<"write", "flush">>)

analogRead(pin) ==
    /\ Idle
    /\ Start(Op("analogRead", <<PyInt(pin)>>,
             build_cmd_str(<<"a", "r">>, PyTuple(<<PyInt(pin)>>))),
          <<"flushInput", "write", "flush", "readline">>)

digitalRead(pin) ==
    /\ Idle
    /\ Start(Op("digitalRead", <<PyInt(pin)>>,
             build_cmd_str(<<"d", "r">>, PyTuple(<<PyInt(pin)>>))),
          <<"flushInput", "write", "flush", "readline">>)

pinMode_noClear(pin, val) ==
    LET pin_ == IF val = S_INPUT THEN 0 - pin ELSE pin
    IN  /\ Idle
        /\ Start(Op("pinMode", <<PyInt(pin), PyStr(val)>>,
                 build_cmd_str(<<"p", "m">>, PyTuple(<<PyInt(pin_)>>))),
              <<"write", "flush">>)

pinMode_pullupNeg(pin, val) ==
    LET pin_ == IF val \in {S_INPUT, S_INPUT \o <<"_">> \o <<"P", "U", "L", "L", "U", "P">>}
                THEN 0 - pin ELSE pin
    IN  /\ Idle
        /\ Start(Op("pinMode", <<PyInt(pin), PyStr(val)>>,
                 build_cmd_str(<<"p", "m">>, PyTuple(<<PyInt(pin_)>>))),
              <<"flushInput", "write", "flush">>)

pinMode(pin, val) ==
    LET pin_ == IF val = S_INPUT THEN 0 - pin ELSE pin
    IN  /\ Idle
        /\ Start(Op("pinMode", <<PyInt(pin), PyStr(val)>>,
                 build_cmd_str(<<"p", "m">>, PyTuple(<<PyInt(pin_)>>))),
              <<"flushInput", "write", "flush">>)

pinModePullUp(pin) ==
    /\ Idle
    /\ Start(Op("pinModePullUp", <<PyInt(pin)>>,
             build_cmd_str(<<"p", "p">>, PyTuple(<<PyInt(pin)>>))),
          <<"flushInput", "write", "flush">>)

close_unguarded ==
    /\ Idle
    /\ Start(Op("close", <<>>, <<>>), <<"flush", "close">>)

\* def close(self): if self.sr.isOpen(): self.sr.flush(); self.sr.close()
close ==
    /\ Idle
    /\ Start(Op("close", <<>>, <<>>),
          IF IsOpen(sr) THEN <<"flush", "close">> ELSE <<>>)

I2Csetup(addr) ==
    /\ Idle
    /\ Start(Op("I2Csetup", <<PyInt(addr)>>,
             build_cmd_str(<<"a", "c">>, PyTuple(<<PyInt(addr)>>))),
          <<"flushInput", "write", "flush">>)

I2Cwritehigh(addr) ==
    /\ Idle
    /\ Start(Op("I2Cwritehigh", <<PyInt(addr)>>,
             build_cmd_str(<<"h", "c">>, PyTuple(<<PyInt(addr)>>))),
          <<"flushInput", "write", "flush">>)

I2Cwritelow(addr) ==
    /\ Idle
    /\ Start(Op("I2Cwritelow", <<PyInt(addr)>>,
             build_cmd_str(<<"i", "c">>, PyTuple(<<PyInt(addr)>>))),
          <<"flushInput", "write", "flush">>)

I2CUnstick ==
    /\ Idle
    /\ Start(Op("I2CUnstick", <<>>, build_cmd_str(<<"u", "n">>, PyStr(<<>>))),
          <<"flushInput", "write", "flush", "readline">>)

\* the while loop stays at "readline" until a line decodes to "done"
I2CScan ==
    /\ Idle
    /\ Start(Op("I2CScan", <<>>, build_cmd_str(<<"i", "c", "k">>, PyStr(<<>>))),
          <<"flushInput", "write", "flush", "readline">>)

ConfI2C(address, reg, highdata, lowdata) ==
    /\ Idle
    /\ Start(Op("ConfI2C",
             <<PyInt(address), PyInt(reg), PyInt(highdata), PyInt(lowdata)>>,
             build_cmd_str(<<"c", "i", "c">>,
                 PyTuple(<<PyInt(address), PyInt(reg), PyInt(highdata),
                           PyInt(lowdata)>>))),
          <<"flushInput", "write", "flush">>)

WriteI2C(address, reg, data) ==
    /\ Idle
    /\ Start(Op("WriteI2C", <<PyInt(address), PyInt(reg), PyInt(data)>>,
             build_cmd_str(<<"w", "i", "c">>,
                 PyTuple(<<PyInt(address), PyInt(reg), PyInt(data)>>))),
          <<"flushInput", "write", "flush">>)

getRegRaw(address, reg) ==
    /\ Idle
    /\ Start(Op("getRegRaw", <<PyInt(address), PyInt(reg)>>,
             build_cmd_str(<<"g", "r", "r">>,
                 PyTuple(<<PyInt(address), PyInt(reg)>>))),
          <<"flushInput", "write", "flush", "readline">>)

SoftReset ==
    /\ Idle
    /\ Start(Op("SoftReset", <<>>, build_cmd_str(<<"r", "e", "s">>, PyStr(<<>>))),
          <<"flushInput", "write", "flush">>)

\* ------------------------------------------------------------ specification
NoEnc == [cmd |-> <<>>, args |-> PyNone, frame |-> <<>>]

Init ==
    /\ phase = "new"
    /\ mode = "none"
    /\ nports = 0
    /\ i = 0
    /\ fp = ""
    /\ version = PyNone
    /\ sr = NoConn
    /\ err = ""
    /\ conn = [p \in PortIds |-> Unopened]
    /\ cur = NoOp
    /\ plan = <<>>
    /\ trace = <<>>
    /\ wire = <<>>
    /\ rd = <<>>
    /\ result = PyNone
    /\ enc = NoEnc
    /\ stale = [pending |-> 0, read |-> FALSE]

Next ==
    \/ InitWithSr
    \/ \E p \in 1..MaxPorts, ok \in BOOLEAN : InitWithPort(p, ok)
    \/ \E n \in 0..MaxPorts : InitScan(n)
    \/ EnumFail
    \/ \E ok \in BOOLEAN : FpOpen(ok)
    \/ FpCheck
    \/ FpExhausted
    \/ \E ok \in BOOLEAN : CtorFlush(ok)
    \/ DeviceSend
    \/ \E ok \in BOOLEAN : StepFlushInput(ok)
    \/ \E ok \in BOOLEAN : StepWrite(ok)
    \/ \E ok \in BOOLEAN : StepFlush(ok)
    \/ \E ok \in BOOLEAN : StepReadline(ok)
    \/ StepClose
    \/ Arduino_version
    \/ \E pin \in Pins, val \in Levels : digitalWrite(pin, val)
    \/ \E pin \in Pins, val \in Duties : analogWrite(pin, val)
    \/ \E pin \in Pins : analogRead(pin)
    \/ \E pin \in Pins : digitalRead(pin)
    \/ \E pin \in Pins, val \in Modes : pinMode(pin, val)
    \/ \E pin \in Pins : pinModePullUp(pin)
    \/ close
    \/ \E addr \in Addrs : I2Csetup(addr)
    \/ \E addr \in Addrs : I2Cwritehigh(addr)
    \/ \E addr \in Addrs : I2Cwritelow(addr)
    \/ I2CUnstick
    \/ I2CScan
    \/ \E a \in Addrs, r \in Regs : ConfI2C(a, r, 0, 255)
    \/ \E a \in Addrs, r \in Regs : WriteI2C(a, r, 255)
    \/ \E a \in Addrs, r \in Regs : getRegRaw(a, r)
    \/ SoftReset

Spec == Init /\ [][Next]_vars

\* ----------------------------------------------------------- framer harness
CmdNames == {S_version, <<"u", "n">>, <<"a", "%">>}
ArgVals == {PyInt(0 - 1), PyInt(0), PyInt(10), PyStr(<<>>), PyStr(<<"a">>),
            PyStr(<<"%">>)}
ArgSets ==
    {PyNone, PyStr(<<>>), PyStr(<<"a", "b">>)}
        \cup {PyTuple(xs) : xs \in UNION {[1..k -> ArgVals] : k \in 0..MaxArgs}}

\* a caller evaluates build_cmd_str(cmd, args)
BuildCmd(cmd, args) ==
    /\ enc' = [cmd |-> cmd, args |-> args, frame |-> build_cmd_str(cmd, args)]
    /\ UNCHANGED conn
    /\ UNCHANGED ctorVars
    /\ UNCHANGED opVars

NextFramer == \E cmd \in CmdNames, args \in ArgSets : BuildCmd(cmd, args)

SpecFramer == Init /\ [][NextFramer]_vars

\* --------------------------------------------- I2CScan against a live device
\* the device puts `line` on the link of the session's connection; a line
\* other than "done" is sent only while the scan's list has room for it
DeviceSendLine(line) ==
    /\ phase = "bound"
    /\ IsOpen(sr)
    /\ Len(conn[sr].inbuf) < MaxBuf
    /\ line = S_done \o CRLF \/ Len(rd) + Len(conn[sr].inbuf) < MaxScan
    /\ conn' = [conn EXCEPT ![sr].inbuf = Append(@, line)]
    /\ UNCHANGED <<enc>>
    /\ UNCHANGED ctorVars
    /\ UNCHANGED opVars

NextScan ==
    \/ InitWithSr
    \/ \E ok \in BOOLEAN : CtorFlush(ok)
    \/ I2CScan
    \/ \E line \in Lines : DeviceSendLine(line)
    \/ \E ok \in BOOLEAN : StepFlushInput(ok)
    \/ \E ok \in BOOLEAN : StepWrite(ok)
    \/ \E ok \in BOOLEAN : StepFlush(ok)
    \/ \E ok \in BOOLEAN : StepReadline(ok)

\* the method runs on: a transport call that does not raise is eventually
\* made; the device sends "done" again and again
SpecScan ==
    /\ Init
    /\ [][NextScan]_vars
    /\ WF_vars(StepFlushInput(TRUE))
    /\ WF_vars(StepWrite(TRUE))
    /\ WF_vars(StepFlush(TRUE))
    /\ WF_vars(StepReadline(TRUE))
    /\ SF_vars(DeviceSendLine(S_done \o CRLF))

\* ================================================================ properties
Calls(tr) == [k \in 1..Len(tr) |-> tr[k].call]
IsPrefix(a, b) == Len(a) <= Len(b) /\ SubSeq(b, 1, Len(a)) = a
OpenPorts == {p \in PortIds : conn[p].st = "open"}
Returned == plan = <<>> /\ result.t \notin {"raise", "pending"}

\* C1: discovery walks the candidates in enumeration order and binds to the
\* first one that opens and whose handshake reply is exactly "version": an
\* iteration of the loop ends in a bind exactly when the candidate opened and
\* get_version returned "version", a candidate that fails to open is skipped,
\* every earlier candidate was left failed or closed, and no later candidate
\* is ever opened or written to, during the scan or after the bind.
C1_State ==
    /\ (mode = "scan" /\ phase = "probing") =>
           /\ \A j \in 1..MaxPorts : j > i => conn[j] = Unopened
           /\ \A j \in 1..MaxPorts : j < i => conn[j].st \in {"failed", "closed"}
    /\ (mode = "scan" /\ phase \in {"opened", "bound"}) =>
           /\ sr = i
           /\ version = PyStr(S_version)
           /\ conn[sr].written
           /\ \A j \in 1..MaxPorts : j > sr => conn[j] = Unopened
           /\ \A j \in 1..MaxPorts : j < sr => conn[j].st \in {"failed", "closed"}
    /\ (mode = "scan" /\ phase = "opened") => IsOpen(sr)

C1_Step ==
    (phase = "probing" /\ (i' # i \/ phase' # "probing")) =>
        IF fp = "gv" /\ result = PyStr(S_version)
        THEN phase' = "opened" /\ sr' = i /\ i' = i /\ IsOpen(i)'
        ELSE /\ phase' # "opened"
             /\ (phase' = "probing" => i' = i + 1 /\ fp' = "open")

C1_FirstMatchBinds == [][C1_State' /\ C1_Step]_vars

C1_Witness ==
    /\ mode = "scan"
    /\ phase = "opened"
    /\ sr = 2
    /\ nports = 3
    /\ conn[1].st = "closed"
    /\ conn[3] = Unopened

\* C2: a candidate that opened but did not answer "version" is closed, once,
\* before the next candidate is tried, so no earlier candidate is open while a
\* later one is probed; with candidate 1 failing to open, candidate 2
\* mismatching and candidate 3 matching, find_port returns candidate 3 with
\* candidate 2 closed and candidate 3 the only open connection.
C2_MismatchClosed ==
    mode = "scan" =>
        /\ (phase = "probing" /\ fp = "open" /\ i > 1 /\ conn[i - 1].st # "failed") =>
               /\ version # PyStr(S_version)
               /\ conn[i - 1].st = "closed"
               /\ conn[i - 1].closes = 1
               /\ OpenPorts = {}
        /\ phase = "probing" => OpenPorts \subseteq {i}
        /\ phase = "opened" => OpenPorts = {sr}
        /\ (phase = "opened" /\ nports = 3 /\ conn[1].st = "failed"
                /\ conn[2].written /\ conn[3].written) =>
               /\ sr = 3
               /\ conn[2].st = "closed"
               /\ OpenPorts = {3}

C2_Witness ==
    /\ mode = "scan"
    /\ phase = "opened"
    /\ nports = 3
    /\ conn[1].st = "failed"
    /\ conn[2].st = "closed"
    /\ conn[2].written
    /\ sr = 3
    /\ OpenPorts = {3}

\* C3: when the loop of find_port runs out of candidates (each failed to open
\* or answered something other than "version"; also with no candidate at
\* all), the constructor ends with ValueError, holds no connection, never
\* becomes bound, and no connection is open.
C3_NoDeviceError ==
    (mode = "scan" /\ i > nports) =>
        /\ OpenPorts = {}
        /\ phase \in {"probing", "failed"}
        /\ phase = "failed" => (err = "ValueError" /\ sr = NoConn)
        /\ phase = "probing" => fp = "open"

C3_Witness ==
    /\ mode = "scan"
    /\ phase = "failed"
    /\ err = "ValueError"
    /\ nports = 3
    /\ conn[1].st = "closed"
    /\ conn[2].st = "failed"
    /\ conn[3].st = "closed"

\* C4: no exit of the constructor by an error leaves open a connection that
\* discovery or the constructor opened.
C4_NoLeakOnError ==
    (phase = "failed" /\ mode \in {"scan", "port"}) => OpenPorts = {}

\* C5: no write, flush, input-flush or read-line is attempted on a connection
\* that is not open.
C5_NoCallOnClosed ==
    \A k \in 1..Len(trace) : trace[k].open

\* C6: close() flushes and then closes an open connection, which is closed at
\* most once in its life; a close() on a session whose connection is already
\* closed makes no transport call at all and returns without raising.
C6_CloseIdempotent ==
    /\ \A p \in PortIds : conn[p].closes <= 1
    /\ (phase = "bound" /\ cur.name = "close") =>
           /\ IsPrefix(Calls(trace), <<"flush", "close">>)
           /\ \A k \in 1..Len(trace) : trace[k].open
           /\ (plan = <<>> /\ trace = <<>>) =>
                  (result = PyNone /\ conn[sr].st = "closed" /\ conn[sr].closes = 1)
           /\ (plan = <<>> /\ result.t # "raise") =>
                  (conn[sr].st = "closed" /\ conn[sr].closes = 1)
           /\ Len(trace) = 2 => (plan = <<>> /\ result = PyNone)

C6_Witness ==
    /\ phase = "bound"
    /\ cur.name = "close"
    /\ plan = <<>>
    /\ trace = <<>>
    /\ result = PyNone
    /\ conn[sr].closes = 1

\* C7 (as stated): every pin/I2C operation, digitalWrite and analogWrite
\* included, calls flushInput, write, flush in this order, then readline once
\* if it returns a reply.
WriteOnlyOps == {"digitalWrite", "analogWrite", "pinMode", "pinModePullUp",
                 "I2Csetup", "I2Cwritehigh", "I2Cwritelow", "ConfI2C", "WriteI2C",
                 "SoftReset"}
OneReplyOps == {"analogRead", "digitalRead", "I2CUnstick", "getRegRaw"}
Clear3 == <<"flushInput", "write", "flush">>

C7_AllOpsClearInput ==
    (phase = "bound" /\ cur.name \in WriteOnlyOps \cup OneReplyOps) =>
        LET want == IF cur.name \in OneReplyOps THEN Clear3 \o <<"readline">>
                    ELSE Clear3
        IN  /\ IsPrefix(Calls(trace), want)
            /\ Returned => Calls(trace) = want

\* C7 (amended): digitalWrite and analogWrite call write, flush only, without
\* discarding pending input; every other pin/I2C operation calls flushInput,
\* write, flush in this order; analogRead, digitalRead, I2CUnstick and
\* getRegRaw then read exactly one line, I2CScan reads one line or more, and
\* the write-only operations read nothing.
C7_StepOrder ==
    /\ (phase = "bound" /\ cur.name \in WriteOnlyOps \cup OneReplyOps) =>
        LET want == IF cur.name \in {"digitalWrite", "analogWrite"}
                    THEN <<"write", "flush">>
                    ELSE IF cur.name \in OneReplyOps THEN Clear3 \o <<"readline">>
                    ELSE Clear3
        IN  /\ IsPrefix(Calls(trace), want)
            /\ Returned => Calls(trace) = want
            /\ Len(rd) = IF cur.name \in OneReplyOps /\ Len(trace) = 4
                            /\ (result.t = "raise" => result.v = "ValueError")
                         THEN 1 ELSE 0
    /\ (phase = "bound" /\ cur.name = "I2CScan") =>
           /\ IsPrefix(Calls(trace), Clear3) \/ IsPrefix(Clear3, Calls(trace))
           /\ \A k \in 4..Len(trace) : trace[k].call = "readline"
           /\ Returned => Len(trace) >= 4

C7_Witness ==
    /\ phase = "bound"
    /\ cur.name = "digitalWrite"
    /\ Returned
    /\ Calls(trace) = <<"write", "flush">>
    /\ conn[sr].inbuf # <<>>

\* the string forms of the arguments, in their given order
ArgStrings(args) == [k \in 1..Len(Items(args)) |-> str(Items(args)[k])]

RECURSIVE SegmentUpTo(_, _)
SegmentUpTo(ss, k) ==
    IF k = 0 THEN <<>>
    ELSE IF k = 1 THEN ss[1]
    ELSE SegmentUpTo(ss, k - 1) \o <<"%">> \o ss[k]

Encoded == enc.frame # <<>>

\* C8: the frame is "@", the name, "%", the segment, "$!", where the segment is
\* empty for absent or empty args and otherwise the string forms of the
\* arguments joined by "%" in order; build_cmd_str("version") is
\* "@version%$!"; an empty-string argument gives one "%" followed by "$!".
C8_FrameShape ==
    Encoded =>
        LET f == enc.frame
            n == Len(enc.cmd)
            ss == ArgStrings(enc.args)
            seg == SegmentUpTo(ss, Len(ss))
        IN  /\ Len(f) = n + 4 + Len(seg)
            /\ f[1] = "@"
            /\ SubSeq(f, 2, n + 1) = enc.cmd
            /\ f[n + 2] = "%"
            /\ SubSeq(f, n + 3, Len(f) - 2) = seg
            /\ SubSeq(f, Len(f) - 1, Len(f)) = <<"$", "!">>
            /\ (enc.args \in {PyNone, PyStr(<<>>), PyTuple(<<>>)}) => Len(f) = n + 4
            /\ (enc.cmd = S_version /\ enc.args = PyNone) =>
                   f = <<"@", "v", "e", "r", "s", "i", "o", "n", "%", "$", "!">>
            /\ (enc.cmd = <<"u", "n">> /\ enc.args = PyStr(<<>>)) =>
                   f = <<"@", "u", "n", "%", "$", "!">>

C8_Witness ==
    /\ enc.cmd = <<"u", "n">>
    /\ enc.args = PyTuple(<<PyInt(0 - 1), PyInt(10)>>)
    /\ enc.frame = <<"@", "u", "n", "%", "-", "1", "%", "1", "0", "$", "!">>

\* the inverse parse: drop the leading "@" and the trailing "$!", split on "%"
RECURSIVE Split(_)
Split(s) ==
    IF \A k \in 1..Len(s) : s[k] # "%" THEN <<s>>
    ELSE LET k == CHOOSE k \in 1..Len(s) :
                      s[k] = "%" /\ \A j \in 1..(k - 1) : s[j] # "%"
         IN  <<SubSeq(s, 1, k - 1)>> \o Split(SubSeq(s, k + 1, Len(s)))

Parse(f) == Split(SubSeq(f, 2, Len(f) - 2))

HasPercent(s) == \E k \in 1..Len(s) : s[k] = "%"

\* C9 (as stated): for all (name, args) the inverse parse of the frame gives
\* back the name and the sequence of argument strings.
C9_RoundTripAll ==
    Encoded =>
        /\ Head(Parse(enc.frame)) = enc.cmd
        /\ Tail(Parse(enc.frame)) = ArgStrings(enc.args)

\* C9 (amended): when neither the name nor the string form of any argument
\* contains "%", the inverse parse gives back the name, and gives back the
\* sequence of argument strings when there is at least one argument; for
\* absent or empty args it yields a single empty argument string.
C9_RoundTrip ==
    (/\ Encoded
     /\ ~HasPercent(enc.cmd)
     /\ \A k \in 1..Len(ArgStrings(enc.args)) : ~HasPercent(ArgStrings(enc.args)[k])) =>
        /\ Head(Parse(enc.frame)) = enc.cmd
        /\ Tail(Parse(enc.frame)) =
               IF ArgStrings(enc.args) = <<>> THEN << <<>> >>
               ELSE ArgStrings(enc.args)

C9_Witness ==
    /\ enc.cmd = S_version
    /\ enc.args = PyTuple(<<PyInt(0 - 1), PyStr(<<"a">>)>>)
    /\ Parse(enc.frame) = <<S_version, <<"-", "1">>, <<"a">>>>

\* C10: digitalWrite(p, level) with p > 0 writes "@dw%-p$!" when level is LOW
\* and "@dw%p$!" when it is HIGH, so the frame carries a minus sign exactly
\* when the level is LOW.
C10_DigitalWriteSign ==
    (phase = "bound" /\ cur.name = "digitalWrite" /\ cur.args[1].v > 0) =>
        LET p == Digits(cur.args[1].v)
            low == cur.args[2] = PyStr(S_LOW)
        IN  /\ wire \in {<<>>, cur.cmd_str}
            /\ cur.cmd_str = IF low
                             THEN <<"@", "d", "w", "%", "-">> \o p \o <<"$", "!">>
                             ELSE <<"@", "d", "w", "%">> \o p \o <<"$", "!">>
            /\ (cur.cmd_str[5] = "-") <=> low
            /\ (Len(trace) >= 1 /\ trace[1].open /\ result.t # "raise") =>
                   wire = cur.cmd_str

C10_Witness ==
    /\ phase = "bound"
    /\ cur.name = "digitalWrite"
    /\ cur.args = <<PyInt(1), PyStr(S_LOW)>>
    /\ wire = <<"@", "d", "w", "%", "-", "1", "$", "!">>

\* C11: analogWrite(pin, val) writes "@aw%pin%v$!" where v is 255 for val > 255,
\* 0 for val < 0 and val otherwise: the duty on the wire parses to an integer
\* of [0, 255] and the pin is sent unchanged.
C11_AnalogWriteClamp ==
    (phase = "bound" /\ cur.name = "analogWrite") =>
        LET pin == cur.args[1].v
            val == cur.args[2].v
            f == Parse(cur.cmd_str)
            lo == IF val < 0 THEN 0 ELSE val
            want == IF lo > 255 THEN 255 ELSE lo
        IN  /\ Len(f) = 3
            /\ f[1] = <<"a", "w">>
            /\ int(f[2]) = PyInt(pin)
            /\ int(f[3]) = PyInt(want)
            /\ int(f[3]).v \in 0..255
            /\ val = 300 => f[3] = <<"2", "5", "5">>
            /\ val = 0 - 5 => f[3] = <<"0">>
            /\ val = 128 => f[3] = <<"1", "2", "8">>
            /\ wire \in {<<>>, cur.cmd_str}
            /\ (Len(trace) >= 1 /\ trace[1].open /\ result.t # "raise") =>
                   wire = cur.cmd_str

C11_Witness ==
    /\ phase = "bound"
    /\ cur.name = "analogWrite"
    /\ cur.args = <<PyInt(1), PyInt(300)>>
    /\ wire = <<"@", "a", "w", "%", "1", "%", "2", "5", "5", "$", "!">>

\* C20: a reply-returning operation never returns a line that was already in
\* the input buffer when the operation began.
ReplyOps == {"version", "analogRead", "digitalRead", "I2CUnstick", "getRegRaw"}

C20_NoStaleReply ==
    (phase = "bound" /\ cur.name \in ReplyOps) => ~stale.read

\* C12: I2CScan writes the "ick" request once and then reads lines until one
\* equals "done"; it returns the lines read before that one, in the order
\* read, without the terminator, and reads nothing after it.
ReadCount == Cardinality({k \in 1..Len(trace) : trace[k].call = "readline"})
WriteCount == Cardinality({k \in 1..Len(trace) : trace[k].call = "write"})
Text(line) == IF line = <<>> THEN <<>> ELSE SubSeq(line, 1, Len(line) - 2)

C12_State ==
    (phase = "bound" /\ cur.name = "I2CScan") =>
        /\ WriteCount <= 1
        /\ wire \in {<<>>, <<"@", "i", "c", "k", "%", "$", "!">>}
        /\ \A k \in 1..Len(rd) : rd[k] # S_done
        /\ result.t \in {"pending", "list", "raise"}
        /\ result.t = "pending" => ReadCount = Len(rd)
        /\ result.t = "list" =>
               (plan = <<>> /\ result.v = rd /\ ReadCount = Len(rd) + 1)

C12_Step ==
    (/\ phase = "bound"
     /\ cur.name = "I2CScan"
     /\ plan # <<>>
     /\ Head(plan) = "readline"
     /\ trace' # trace
     /\ result'.t # "raise") =>
        LET x == Text(IF conn[sr].inbuf = <<>> THEN <<>> ELSE Head(conn[sr].inbuf))
        IN  IF x = S_done
            THEN result' = PyList(rd) /\ rd' = rd /\ plan' = <<>>
            ELSE rd' = Append(rd, x) /\ plan' = plan /\ result' = Pending

C12_ScanResult == [][C12_State' /\ C12_Step]_vars

C12_Witness ==
    /\ phase = "bound"
    /\ cur.name = "I2CScan"
    /\ result = PyList(<<S_version, <<"5", "1", "2">>>>)
    /\ ReadCount = 3

\* C13: a failure of write or flush inside version() is swallowed: version()
\* returns None, reads nothing and the session keeps its connection; in every
\* other operation the failure ends the operation with the exception, and
\* the frame is not written again.
CallFailed ==
    \/ ~IsOpen(sr)
    \/ plan' = <<>> /\ Tail(plan) # <<>>
    \/ Head(plan) = "write" /\ wire' = <<>>

C13_State ==
    phase = "bound" =>
        /\ WriteCount <= 1
        /\ (cur.name = "version" /\ plan = <<>> /\ trace # <<>> /\ ReadCount = 0) =>
               result = PyNone
        /\ (cur.name = "version" /\ result.t = "raise") => ReadCount = 1

C13_Step ==
    (/\ phase = "bound"
     /\ plan # <<>>
     /\ Head(plan) \in {"write", "flush"}
     /\ trace' # trace
     /\ CallFailed) =>
        /\ plan' = <<>>
        /\ Len(trace') = Len(trace) + 1
        /\ phase' = "bound"
        /\ sr' = sr
        /\ IF cur.name = "version" THEN result' = PyNone ELSE result'.t = "raise"

C13_WriteFailure == [][C13_State' /\ C13_Step]_vars

C13_Witness ==
    /\ phase = "bound"
    /\ cur.name = "version"
    /\ plan = <<>>
    /\ result = PyNone
    /\ Calls(trace) = <<"write", "flush">>
    /\ IsOpen(sr)

\* C14: analogRead returns the integer written in its single reply line
\* without the CR+LF ("512\r\n" gives 512); a reply that is no integer, the
\* empty line of a timeout included, ends the operation with ValueError, and
\* no integer is returned that the reply does not spell.
AllDigits(s) == s # <<>> /\ \A k \in 1..Len(s) : IsDigit(s[k])

C14_State ==
    (phase = "bound" /\ cur.name = "analogRead") =>
        /\ result.t \in {"pending", "int", "raise"}
        /\ result.t = "int" => (Len(rd) = 1 /\ plan = <<>>)
        /\ (plan = <<>> /\ Len(rd) = 1) =>
               IF AllDigits(rd[1])
               THEN result.t = "int" /\ Digits(result.v) = rd[1]
               ELSE result = PyRaise("ValueError")
        /\ (plan = <<>> /\ rd = << <<"5", "1", "2">> >>) => result = PyInt(512)
        /\ (plan = <<>> /\ rd = << <<>> >>) => result.t = "raise"

C14_Step ==
    (/\ phase = "bound"
     /\ cur.name = "analogRead"
     /\ plan = <<"readline">>
     /\ trace' # trace
     /\ rd' # rd) =>
        rd' = <<Text(IF conn[sr].inbuf = <<>> THEN <<>> ELSE Head(conn[sr].inbuf))>>

C14_AnalogReadInt == [][C14_State' /\ C14_Step]_vars

C14_Witness ==
    /\ phase = "bound"
    /\ cur.name = "analogRead"
    /\ rd = << <<"5", "1", "2">> >>
    /\ result = PyInt(512)

C14_WitnessTimeout ==
    /\ phase = "bound"
    /\ cur.name = "analogRead"
    /\ rd = << <<>> >>
    /\ result = PyRaise("ValueError")

\* C15: a session constructed with an explicit port never enters discovery:
\* no candidate is enumerated, only the named port is ever opened, no frame
\* is written and no line is read before the first operation, and the session
\* binds whatever the device has sent; when the port cannot be opened the
\* constructor fails with the open error and holds no connection.
Touched == {p \in PortIds : conn[p].st # "unopened"}

C15_State ==
    mode = "port" =>
        /\ nports = 0 /\ i = 0 /\ fp = ""
        /\ phase \in {"opened", "bound", "failed"}
        /\ Cardinality(Touched) = 1
        /\ sr # NoConn => Touched = {sr}
        /\ cur = NoOp => (trace = <<>> /\ \A p \in PortIds : ~conn[p].written)
        /\ version = PyNone
        /\ sr = NoConn =>
               /\ phase = "failed"
               /\ err = "SerialException"
               /\ \A p \in Touched : conn[p].st = "failed"

C15_Step ==
    /\ (phase = "new" /\ mode' = "port") =>
           \/ phase' = "opened" /\ sr' # NoConn /\ conn'[sr'].st = "open"
           \/ phase' = "failed" /\ sr' = NoConn /\ err' = "SerialException"
    /\ (mode = "port" /\ phase = "opened" /\ phase' = "bound") =>
           /\ trace' = <<>>
           /\ conn' = conn

C15_ExplicitPort == [][C15_State' /\ C15_Step]_vars

C15_Witness ==
    /\ mode = "port"
    /\ phase = "bound"
    /\ cur = NoOp
    /\ sr = 2
    /\ conn[sr].inbuf = <<S_done \o CRLF>>
    /\ trace = <<>>

C15_WitnessOpenError ==
    /\ mode = "port"
    /\ phase = "failed"
    /\ sr = NoConn
    /\ err = "SerialException"

\* C16: the session's lifecycle only moves forward.  The constructor's phases
\* never go back; once bound the session stays bound to the same connection
\* whatever operation runs; a connection that was closed is never open again,
\* so a closed session never returns to a bound, open one.
Rank(ph) ==
    CASE ph = "new"     -> 0
      [] ph = "probing" -> 1
      [] ph = "opened"  -> 2
      [] ph = "bound"   -> 3
      [] ph = "failed"  -> 4

SessionClosed == phase = "bound" /\ conn[sr].st = "closed"

C16_Step ==
    /\ Rank(phase') >= Rank(phase)
    /\ phase = "failed" => phase' = "failed"
    /\ phase = "bound" => (phase' = "bound" /\ sr' = sr)
    /\ phase = "opened" => sr' = sr
    /\ \A p \in PortIds :
        /\ conn[p].st = "closed" => conn'[p].st = "closed"
        /\ conn[p].st = "open" => conn'[p].st \in {"open", "closed"}
    /\ SessionClosed => SessionClosed'
    /\ (phase = "bound" /\ conn'[sr].st # conn[sr].st) =>
           (cur.name = "close" /\ conn'[sr].st = "closed")

C16_ForwardOnly == [][C16_Step]_vars

C16_Witness ==
    /\ SessionClosed
    /\ cur.name = "version"
    /\ plan = <<>>
    /\ trace # <<>>

\* C17: pinMode(p, mode) frames command "pm" with one argument, -p when mode
\* is "INPUT" and p for every other mode; for p > 0 the frame has a minus sign
\* exactly when mode is "INPUT".
C17_PinModeSign ==
    (phase = "bound" /\ cur.name = "pinMode") =>
        LET p == cur.args[1].v
            input == cur.args[2] = PyStr(S_INPUT)
            f == Parse(cur.cmd_str)
        IN  /\ Len(f) = 2
            /\ f[1] = <<"p", "m">>
            /\ int(f[2]) = PyInt(IF input THEN 0 - p ELSE p)
            /\ p > 0 => ((cur.cmd_str[5] = "-") <=> input)
            /\ p > 0 => cur.cmd_str =
                   <<"@", "p", "m", "%">> \o (IF input THEN <<"-">> ELSE <<>>)
                       \o Digits(p) \o <<"$", "!">>
            /\ wire \in {<<>>, cur.cmd_str}

C17_Witness ==
    /\ phase = "bound"
    /\ cur.name = "pinMode"
    /\ cur.args = <<PyInt(1), PyStr(S_INPUT)>>
    /\ wire = <<"@", "p", "m", "%", "-", "1", "$", "!">>

C17_WitnessOther ==
    /\ phase = "bound"
    /\ cur.name = "pinMode"
    /\ cur.args[1] = PyInt(1)
    /\ cur.args[2] \notin {PyStr(S_INPUT), PyStr(S_OUTPUT)}
    /\ wire = <<"@", "p", "m", "%", "1", "$", "!">>

\* C18: on pin 0 the sign carries nothing: digitalWrite(0, LOW) and
\* digitalWrite(0, HIGH) frame "@dw%0$!", pinMode(0, INPUT) and
\* pinMode(0, OUTPUT) frame "@pm%0$!"; two consecutive calls on the same pin
\* with opposite level (or INPUT against OUTPUT) have equal frames exactly
\* when the pin is 0.
C18_State ==
    /\ (phase = "bound" /\ cur.name = "digitalWrite" /\ cur.args[1].v = 0) =>
           cur.cmd_str = <<"@", "d", "w", "%", "0", "$", "!">>
    /\ (phase = "bound" /\ cur.name = "pinMode" /\ cur.args[1].v = 0) =>
           cur.cmd_str = <<"@", "p", "m", "%", "0", "$", "!">>

C18_Step ==
    (/\ phase = "bound"
     /\ cur.name \in {"digitalWrite", "pinMode"}
     /\ cur'.name = cur.name
     /\ cur'.args[1] = cur.args[1]
     /\ cur'.args[2] # cur.args[2]
     /\ {cur.args[2], cur'.args[2]} \in
            {{PyStr(S_LOW), PyStr(S_HIGH)}, {PyStr(S_INPUT), PyStr(S_OUTPUT)}}) =>
        ((cur'.cmd_str = cur.cmd_str) <=> (cur.args[1].v = 0))

C18_PinZero == [][C18_State' /\ C18_Step]_vars

C18_Witness ==
    /\ phase = "bound"
    /\ cur.name = "digitalWrite"
    /\ cur.args = <<PyInt(0), PyStr(S_LOW)>>
    /\ wire = <<"@", "d", "w", "%", "0", "$", "!">>

C18_WitnessPinMode ==
    /\ phase = "bound"
    /\ cur.name = "pinMode"
    /\ cur.args = <<PyInt(0), PyStr(S_INPUT)>>
    /\ wire = <<"@", "p", "m", "%", "0", "$", "!">>

\* C19: I2CScan returns its list only by reading "done".  A read that times
\* out appends the empty string and the loop goes on with a list one longer,
\* so without "done" the list only grows and nothing is returned; when the
\* device keeps sending "done", a scan in progress eventually ends, and it
\* ends without an exception only by returning the list.
Scanning == phase = "bound" /\ cur.name = "I2CScan" /\ plan # <<>>

C19_Step ==
    (Scanning /\ Head(plan) = "readline" /\ trace' # trace /\ result'.t # "raise") =>
        LET line == IF conn[sr].inbuf = <<>> THEN <<>> ELSE Head(conn[sr].inbuf)
        IN  /\ (plan' = <<>>) <=> (Text(line) = S_done)
            /\ (result'.t = "list") <=> (Text(line) = S_done)
            /\ Text(line) # S_done =>
                   /\ plan' = plan
                   /\ Len(rd') = Len(rd) + 1
                   /\ SubSeq(rd', 1, Len(rd)) = rd
            /\ line = <<>> => rd' = Append(rd, <<>>)

C19_Returns ==
    (phase = "bound" /\ cur.name = "I2CScan" /\ plan = <<>>) =>
        result.t \in {"list", "raise"}

C19_ScanTerminates ==
    /\ [][C19_Step /\ C19_Returns']_vars
    /\ Scanning ~> (cur.name = "I2CScan" /\ plan = <<>>)

C19_Witness ==
    /\ phase = "bound"
    /\ cur.name = "I2CScan"
    /\ rd = << <<>>, <<>> >>
    /\ plan = <<>>
    /\ result = PyList(rd)

C19_WitnessGrowing ==
    /\ Scanning
    /\ rd = << <<>>, <<>> >>

====
